---- MODULE Spec2Model ----
(***************************************************************************)
(* Model of the FHIR vitals dashboard (src/app.py): the code registry and  *)
(* the clinical thresholds, parse_observation, determine_status, the two   *)
(* sidebar handlers ("Fetch Data", "Load Sample Data") and the pass that   *)
(* turns the stored bundle into the table of readings.                     *)
(*                                                                         *)
(* Numbers: a measured value and a threshold are kept in tenths of their   *)
(* unit (38.5 is 385, 18.5 is 185, 140 is 1400), so that the two           *)
(* fractional thresholds of THRESHOLDS stay integers.                      *)
(* Time: an instant is a whole number of hours after 2025-10-01T10:00Z. A  *)
(* date string is kept as its local clock reading, its UTC offset and the  *)
(* way it is written ("Z", an explicit offset, or text that is no date).   *)
(***************************************************************************)
EXTENDS Integers, Sequences, FiniteSets, TLC

VARIABLES
    vital_type,        \* determine_status: the row's vital type
    value,             \* determine_status: the row's value (tenths)
    status,            \* determine_status: the label returned, "unset" before the call
    obs,               \* parse_observation: the Observation resource handed in
    parsed,            \* parse_observation: what it returned, "pending" before the call
    remote,            \* what the FHIR server holds for the patient (a JSON value)
    fhir_data,         \* st.session_state['fhir_data'], or the Unset marker
    lastRun,           \* which interaction started the last script run, and how the fetch ended
    all_observations,  \* the list built by the parsing loop of the last run
    df,                \* the rows of the DataFrame with their status column
    data_source,       \* the sidebar's "Data Source" radio button
    pc                 \* how the last script run ended

vars == <<vital_type, value, status, obs, parsed, remote, fhir_data, lastRun,
          all_observations, df, data_source, pc>>

----------------------------------------------------------------------------
(* Bounds of the model *)

\* Instants are 0..MaxT.
MaxT == 1
\* The longest "coding" list.
MaxCodings == 2
\* The most components of one Observation.
MaxComponents == 2
\* The most entries of the server's bundle.
MaxEntries == 2

----------------------------------------------------------------------------
(* Code registry and thresholds *)

VITAL_CODES ==
    ("85354-9" :> "blood_pressure") @@
    ("8480-6"  :> "blood_pressure_systolic") @@
    ("8462-4"  :> "blood_pressure_diastolic") @@
    ("8867-4"  :> "heart_rate") @@
    ("8310-5"  :> "temperature") @@
    ("9279-1"  :> "respiratory_rate") @@
    ("2708-6"  :> "oxygen_saturation") @@
    ("29463-7" :> "body_weight") @@
    ("39156-5" :> "bmi")

\* A threshold is a number or None: def = FALSE is None.
Num(n) == [def |-> TRUE, v |-> n]
None == [def |-> FALSE, v |-> 0]

THRESHOLDS ==
    ("blood_pressure_systolic"  :> [high |-> Num(1400), low |-> Num(900), unit |-> "mmHg"]) @@
    ("blood_pressure_diastolic" :> [high |-> Num(900),  low |-> Num(600), unit |-> "mmHg"]) @@
    ("heart_rate"               :> [high |-> Num(1000), low |-> Num(600), unit |-> "bpm"]) @@
    ("temperature"              :> [high |-> Num(380),  low |-> Num(360), unit |-> "C"]) @@
    ("respiratory_rate"         :> [high |-> Num(200),  low |-> Num(120), unit |-> "/min"]) @@
    ("oxygen_saturation"        :> [high |-> Num(1000), low |-> Num(950), unit |-> "%"]) @@
    ("body_weight"              :> [high |-> None,      low |-> None,     unit |-> "kg"]) @@
    ("bmi"                      :> [high |-> Num(300),  low |-> Num(185), unit |-> "kg/m2"])

\* The vital types a row can carry: the values of VITAL_CODES.
VitalTypes == {VITAL_CODES[c] : c \in DOMAIN VITAL_CODES}

----------------------------------------------------------------------------
(* determine_status *)

\* The same function with inclusive comparisons: a value on a threshold is
\* flagged.
determine_status_inclusive(vt, val) ==
    IF vt \notin DOMAIN THRESHOLDS THEN <<"normal", "white">>
    ELSE LET threshold == THRESHOLDS[vt] IN
         IF threshold.high.def /\ val >= threshold.high.v THEN <<"high", "red">>
         ELSE IF threshold.low.def /\ val <= threshold.low.v THEN <<"low", "blue">>
         ELSE <<"normal", "green">>

\* Returns the pair (status, indicator).
determine_status(vt, val) ==
    IF vt \notin DOMAIN THRESHOLDS THEN <<"normal", "white">>
    ELSE LET threshold == THRESHOLDS[vt] IN
         IF threshold.high.def /\ val > threshold.high.v THEN <<"high", "red">>
         ELSE IF threshold.low.def /\ val < threshold.low.v THEN <<"low", "blue">>
         ELSE <<"normal", "green">>

----------------------------------------------------------------------------
(* The JSON values parse_observation reads *)

\* A date field of a resource: the key is missing ("absent"), or it holds the
\* empty string ("empty"), text that is no ISO date ("bad"), a date written
\* with a trailing Z ("Z") or one written with an explicit offset ("off").
AbsentDate == [k |-> "absent", local |-> 0, off |-> 0]
EmptyDate == [k |-> "empty", local |-> 0, off |-> 0]
BadDate == [k |-> "bad", local |-> 0, off |-> 0]
ZDate(t) == [k |-> "Z", local |-> t, off |-> 0]
OffsetDate(t, o) == [k |-> "off", local |-> t, off |-> o]

\* effectivePeriod: missing, an object with a start, or a value that is no
\* object (a string, a number, null).
NoPeriod == [k |-> "absent", start |-> AbsentDate]
NonDictPeriod == [k |-> "nondict", start |-> AbsentDate]
PeriodOf(s) == [k |-> "dict", start |-> s]

\* An element of a "coding" list is the text of its 'code', or one of two
\* markers: an element that is no object, and an object with no 'code'.
NonDictCoding == "<not an object>"
NoCode == "<no code>"

\* valueQuantity: v = "none" when the object or its 'value' is missing,
\* "bad" when it is no object or float() rejects its value, "num" otherwise;
\* unit = NoUnit when the object has no 'unit'.
NoUnit == "<no unit>"
NoValue == [v |-> "none", n |-> 0, unit |-> NoUnit]
BadValue == [v |-> "bad", n |-> 0, unit |-> NoUnit]
Quantity(n, u) == [v |-> "num", n |-> n, unit |-> u]

\* A component: an object with a coding list (has = FALSE: no 'code' or no
\* 'coding' key) and a valueQuantity, or a value that is no object.
NonDictComponent == [k |-> "nondict", coding |-> [has |-> FALSE, cs |-> <<>>], vq |-> NoValue]
Component(cs, vq) == [k |-> "dict", coding |-> [has |-> TRUE, cs |-> cs], vq |-> vq]
UncodedComponent(vq) == [k |-> "dict", coding |-> [has |-> FALSE, cs |-> <<>>], vq |-> vq]

\* An Observation resource.
Observation(id, edt, per, cs, vq, comps) ==
    [id |-> id, effectiveDateTime |-> edt, effectivePeriod |-> per,
     coding |-> cs, valueQuantity |-> vq, component |-> comps]

----------------------------------------------------------------------------
(* parse_observation *)

\* Python's truth value of a date field read with .get().
Truthy(d) == d.k \notin {"absent", "empty"}

\* The mutated date selection: the interval start is preferred to the instant.
date_str_period_first(o) ==
    IF o.effectivePeriod.k = "dict" /\ Truthy(o.effectivePeriod.start)
    THEN [exc |-> FALSE, v |-> o.effectivePeriod.start]
    ELSE [exc |-> FALSE, v |-> o.effectiveDateTime]

\* obs.get('effectiveDateTime') or obs.get('effectivePeriod', {}).get('start');
\* exc: the .get of a period that is no object raises.
date_str(o) ==
    IF Truthy(o.effectiveDateTime) THEN [exc |-> FALSE, v |-> o.effectiveDateTime]
    ELSE IF o.effectivePeriod.k = "nondict" THEN [exc |-> TRUE, v |-> AbsentDate]
    ELSE [exc |-> FALSE, v |-> o.effectivePeriod.start]

\* date_str.replace('Z', '+00:00')
replace_Z(d) == IF d.k = "Z" THEN [d EXCEPT !.k = "off", !.off = 0] ELSE d

\* datetime.fromisoformat: the instant of a date written with an offset, a
\* ValueError for anything else.
fromisoformat(d) ==
    IF d.k = "off" THEN [exc |-> FALSE, t |-> d.local - d.off]
    ELSE [exc |-> TRUE, t |-> 0]

\* The loop over code.coding: the vital type of the first registered code.
RECURSIVE find_vital_type(_, _)
find_vital_type(cs, i) ==
    IF i > Len(cs) THEN [exc |-> FALSE, vital_type |-> "None"]
    ELSE IF cs[i] = NonDictCoding THEN [exc |-> TRUE, vital_type |-> "None"]
    ELSE IF cs[i] \in DOMAIN VITAL_CODES THEN [exc |-> FALSE, vital_type |-> VITAL_CODES[cs[i]]]
    ELSE find_vital_type(cs, i + 1)

Reading(id, date, vt, val, unit) ==
    [id |-> id, date |-> date, vital_type |-> vt, value |-> val, unit |-> unit]

\* .get('unit', '')
unit_of(vq) == IF vq.unit = NoUnit THEN "" ELSE vq.unit

\* comp.get('code', {}).get('coding', [{}])[0].get('code'); code = NoCode is None.
comp_code(comp) ==
    IF comp.k = "nondict" THEN [exc |-> TRUE, code |-> NoCode]
    ELSE IF ~comp.coding.has THEN [exc |-> FALSE, code |-> NoCode]
    ELSE IF Len(comp.coding.cs) = 0 THEN [exc |-> TRUE, code |-> NoCode]
    ELSE IF comp.coding.cs[1] = NonDictCoding THEN [exc |-> TRUE, code |-> NoCode]
    ELSE [exc |-> FALSE, code |-> comp.coding.cs[1]]

\* The mutated component loop: the registry test is dropped, a component is
\* emitted under whatever its first coding says.
RECURSIVE components_unfiltered(_, _, _, _, _)
components_unfiltered(comps, i, id, date, results) ==
    IF i > Len(comps) THEN [exc |-> FALSE, rs |-> results]
    ELSE LET cc == comp_code(comps[i]) IN
         IF cc.exc THEN [exc |-> TRUE, rs |-> <<>>]
         ELSE IF comps[i].vq.v = "none"
              THEN components_unfiltered(comps, i + 1, id, date, results)
         ELSE IF comps[i].vq.v = "bad" THEN [exc |-> TRUE, rs |-> <<>>]
         ELSE components_unfiltered(comps, i + 1, id, date,
                  Append(results,
                         Reading(id, date,
                                 IF cc.code \in DOMAIN VITAL_CODES
                                 THEN VITAL_CODES[cc.code] ELSE cc.code,
                                 comps[i].vq.n, unit_of(comps[i].vq))))

\* The loop over the components of a blood pressure panel.
RECURSIVE components(_, _, _, _, _)
components(comps, i, id, date, results) ==
    IF i > Len(comps) THEN [exc |-> FALSE, rs |-> results]
    ELSE LET cc == comp_code(comps[i]) IN
         IF cc.exc THEN [exc |-> TRUE, rs |-> <<>>]
         ELSE IF cc.code \notin DOMAIN VITAL_CODES
              THEN components(comps, i + 1, id, date, results)
         ELSE IF comps[i].vq.v = "none"
              THEN components(comps, i + 1, id, date, results)
         ELSE IF comps[i].vq.v = "bad" THEN [exc |-> TRUE, rs |-> <<>>]
         ELSE components(comps, i + 1, id, date,
                  Append(results,
                         Reading(id, date, VITAL_CODES[cc.code],
                                 comps[i].vq.n, unit_of(comps[i].vq))))

\* What parse_observation returns: None, or a list of readings.
ParseNone == [k |-> "None", rs |-> <<>>]
ParseList(rs) == [k |-> "list", rs |-> rs]
Pending == [k |-> "pending", rs |-> <<>>]

\* Every exception raised inside is caught and turned into None.
parse_observation(o) ==
    LET ds == date_str(o) IN
    IF ds.exc THEN ParseNone
    ELSE IF ~Truthy(ds.v) THEN ParseNone
    ELSE LET date == fromisoformat(replace_Z(ds.v)) IN
         IF date.exc THEN ParseNone
         ELSE LET vt == find_vital_type(o.coding, 1) IN
              IF vt.exc THEN ParseNone
              ELSE IF vt.vital_type = "None" THEN ParseNone
              ELSE IF vt.vital_type = "blood_pressure"
                   THEN LET res == components(o.component, 1, o.id, date.t, <<>>) IN
                        IF res.exc THEN ParseNone ELSE ParseList(res.rs)
              ELSE IF o.valueQuantity.v = "none" THEN ParseNone
              ELSE IF o.valueQuantity.v = "bad" THEN ParseNone
              ELSE ParseList(<<Reading(o.id, date.t, vt.vital_type,
                                       o.valueQuantity.n, unit_of(o.valueQuantity))>>)

----------------------------------------------------------------------------
(* Inputs of the bounded check *)

\* Probe values lie within MaxDelta tenths of a threshold.
MaxDelta == 1

Instants == 0..MaxT

\* Every way of writing a date field: missing, empty, no date, and each
\* instant once with a Z and once as local time one hour east of UTC.
DateStrings ==
    {AbsentDate, EmptyDate, BadDate}
        \cup {ZDate(t) : t \in Instants}
        \cup {OffsetDate(t + 1, 1) : t \in Instants}

Periods == {NoPeriod, NonDictPeriod} \cup {PeriodOf(s) : s \in DateStrings}

Lists(S, n) == UNION {[1..m -> S] : m \in 0..n}

Unregistered == "99999-9"
TopCodes == {"85354-9", "8867-4", Unregistered, NonDictCoding}
ComponentCodes == {"8480-6", "8462-4", Unregistered}

\* The panel of the sample bundle: systolic 145 mmHg, diastolic 92 mmHg.
StdComponents ==
    <<Component(<<"8480-6">>, Quantity(1450, "mmHg")),
      Component(<<"8462-4">>, Quantity(920, "mmHg"))>>

\* Components: every coding list over ComponentCodes with a fixed quantity,
\* every quantity under each of the two registered codes, and the two
\* malformed shapes.
Components ==
    {Component(cs, Quantity(1450, "mmHg")) : cs \in Lists(ComponentCodes, MaxCodings)}
        \cup {Component(<<c>>, vq) :
                c \in {"8480-6", "8462-4"},
                vq \in {Quantity(920, "mmHg"), Quantity(920, NoUnit), NoValue, BadValue}}
        \cup {NonDictComponent, UncodedComponent(Quantity(920, "mmHg"))}

\* Observations varying the two date fields.
ObsByDate ==
    {Observation("obs-d", edt, per, cs, Quantity(1100, "bpm"), StdComponents) :
        edt \in DateStrings, per \in Periods, cs \in {<<"8867-4">>, <<"85354-9">>}}

\* Observations varying the top-level coding list and the scalar value.
ObsByCode ==
    {Observation("obs-c", ZDate(0), NoPeriod, cs, vq, comps) :
        cs \in Lists(TopCodes, MaxCodings),
        vq \in {Quantity(1100, "bpm"), Quantity(1100, NoUnit), NoValue, BadValue},
        comps \in {<<>>, StdComponents}}

\* Observations varying the component list.
ObsByComponent ==
    {Observation("obs-p", ZDate(0), NoPeriod, top[1], top[2], comps) :
        top \in {<<(<<"85354-9">>), NoValue>>,
                 <<(<<Unregistered, "85354-9">>), NoValue>>,
                 <<(<<"8867-4">>), Quantity(1100, "bpm")>>},
        comps \in Lists(Components, MaxComponents)}

ObsInputs == ObsByDate \cup ObsByCode \cup ObsByComponent

\* The thresholds of THRESHOLDS and the values around them.
ThresholdValues ==
    UNION {{THRESHOLDS[t].high.v, THRESHOLDS[t].low.v} :
              t \in {u \in DOMAIN THRESHOLDS : THRESHOLDS[u].high.def}}
ProbeValues == {0} \cup {t + d : t \in ThresholdValues, d \in (0 - MaxDelta)..MaxDelta}

Unset == <<"unset", "unset">>

----------------------------------------------------------------------------
(* Specification of determine_status on one row, and of parse_observation
   on one resource *)

ClassifyIdle == vital_type = "heart_rate" /\ value = 0 /\ status = Unset
ParseIdle ==
    /\ obs = Observation("idle", AbsentDate, NoPeriod, <<>>, NoValue, <<>>)
    /\ parsed = Pending

InitClassify ==
    /\ vital_type \in VitalTypes
    /\ value \in ProbeValues
    /\ status = Unset

\* df.apply(lambda row: determine_status(row['vital_type'], row['value']))
Classify ==
    /\ status = Unset
    /\ status' = determine_status(vital_type, value)
    /\ UNCHANGED <<vital_type, value>>

InitParse ==
    /\ obs \in ObsInputs
    /\ parsed = Pending

\* parsed = parse_observation(resource)
Parse ==
    /\ parsed = Pending
    /\ parsed' = parse_observation(obs)
    /\ UNCHANGED obs

----------------------------------------------------------------------------
(* Bundles *)

\* An entry of a bundle: an object with a 'resource' (missing, no object, or
\* an object with a resourceType), or a value that is no object.
IdleObs == Observation("idle", AbsentDate, NoPeriod, <<>>, NoValue, <<>>)
NonDictEntry == [k |-> "nondict", resource |-> [k |-> "absent", resourceType |-> "", o |-> IdleObs]]
NoResourceEntry == [k |-> "dict", resource |-> [k |-> "absent", resourceType |-> "", o |-> IdleObs]]
NonDictResourceEntry == [k |-> "dict", resource |-> [k |-> "nondict", resourceType |-> "", o |-> IdleObs]]
ResourceEntry(rt, o) == [k |-> "dict", resource |-> [k |-> "dict", resourceType |-> rt, o |-> o]]

\* A JSON value in the place of a bundle: None, the empty object, a truthy
\* value that is no object, or an object whose 'entry' is missing, a list, or
\* a value that cannot be iterated.
JsonNone == [k |-> "None", entry |-> [k |-> "absent", items |-> <<>>]]
EmptyObject == [k |-> "empty", entry |-> [k |-> "absent", items |-> <<>>]]
NonDictBundle == [k |-> "nondict", entry |-> [k |-> "absent", items |-> <<>>]]
NoEntryBundle == [k |-> "dict", entry |-> [k |-> "absent", items |-> <<>>]]
NullEntryBundle == [k |-> "dict", entry |-> [k |-> "null", items |-> <<>>]]
Bundle(items) == [k |-> "dict", entry |-> [k |-> "list", items |-> items]]

\* 'fhir_data' not in st.session_state
NoData == [k |-> "unset", entry |-> [k |-> "absent", items |-> <<>>]]

\* if bundle:
TruthyJson(b) == b.k \notin {"None", "empty"}

load_sample_data ==
    Bundle(<<
        ResourceEntry("Observation",
            Observation("bp-1", ZDate(0), NoPeriod, <<"85354-9">>, NoValue, StdComponents)),
        ResourceEntry("Observation",
            Observation("hr-1", ZDate(0), NoPeriod, <<"8867-4">>, Quantity(1100, "bpm"), <<>>)),
        ResourceEntry("Observation",
            Observation("temp-1", ZDate(0), NoPeriod, <<"8310-5">>, Quantity(385, "C"), <<>>))
    >>)

\* The entries the server's bundle is built from: a heart rate and a blood
\* pressure panel at each instant, a heart rate with an unparsable, with a
\* missing and with an interval timestamp, a resource of an unregistered
\* code, a resource of another kind, and the three malformed entries.
RemoteEntries ==
    {ResourceEntry("Observation",
        Observation("hr-r", ZDate(t), NoPeriod, <<"8867-4">>, Quantity(720, NoUnit), <<>>)) :
        t \in Instants}
    \cup {ResourceEntry("Observation",
        Observation("bp-r", OffsetDate(t + 1, 1), NoPeriod, <<"85354-9">>, NoValue, StdComponents)) :
        t \in Instants}
    \cup {ResourceEntry("Observation",
              Observation("hr-bad", BadDate, NoPeriod, <<"8867-4">>, Quantity(720, "bpm"), <<>>)),
          ResourceEntry("Observation",
              Observation("hr-nodate", AbsentDate, NoPeriod, <<"8867-4">>, Quantity(720, "bpm"), <<>>)),
          ResourceEntry("Observation",
              Observation("hr-period", AbsentDate, PeriodOf(ZDate(0)), <<"8867-4">>, Quantity(590, "bpm"), <<>>)),
          ResourceEntry("Observation",
              Observation("other", ZDate(0), NoPeriod, <<Unregistered>>, Quantity(10, "mg"), <<>>)),
          ResourceEntry("Patient", IdleObs),
          NonDictEntry, NoResourceEntry, NonDictResourceEntry}

RemoteBundles ==
    {EmptyObject, NonDictBundle, NoEntryBundle, NullEntryBundle}
        \cup {Bundle(items) : items \in Lists(RemoteEntries, MaxEntries)}

----------------------------------------------------------------------------
(* The pass over the stored bundle *)

\* The loop over the entries; crashed: an exception left the loop uncaught
\* (entry.get or resource.get on a value that is no object).
RECURSIVE parse_entries(_, _, _)
parse_entries(entries, i, acc) ==
    IF i > Len(entries) THEN [crashed |-> FALSE, rs |-> acc]
    ELSE LET entry == entries[i] IN
         IF entry.k = "nondict" THEN [crashed |-> TRUE, rs |-> <<>>]
         ELSE IF entry.resource.k = "nondict" THEN [crashed |-> TRUE, rs |-> <<>>]
         ELSE IF entry.resource.k = "absent" \/ entry.resource.resourceType # "Observation"
              THEN parse_entries(entries, i + 1, acc)
         ELSE LET res == parse_observation(entry.resource.o) IN
              IF res.k = "list" /\ Len(res.rs) > 0
              THEN parse_entries(entries, i + 1, acc \o res.rs)
              ELSE parse_entries(entries, i + 1, acc)

\* bundle.get('entry', []) and the loop over it.
normalize(bundle) ==
    IF bundle.k \in {"None", "nondict"} THEN [crashed |-> TRUE, rs |-> <<>>]
    ELSE IF bundle.entry.k = "null" THEN [crashed |-> TRUE, rs |-> <<>>]
    ELSE parse_entries(bundle.entry.items, 1, <<>>)

\* df = pd.DataFrame(all_observations) with the status and indicator columns.
with_status(rs) ==
    [i \in 1..Len(rs) |->
        [id |-> rs[i].id, date |-> rs[i].date, vital_type |-> rs[i].vital_type,
         value |-> rs[i].value, unit |-> rs[i].unit,
         status |-> determine_status(rs[i].vital_type, rs[i].value)[1],
         indicator |-> determine_status(rs[i].vital_type, rs[i].value)[2]]]

\* The script from "Process data if available" on, for the session's data:
\* the values of all_observations, df and pc it ends with.
process(data) ==
    IF data = NoData THEN [all |-> <<>>, df |-> <<>>, pc |-> "info"]
    ELSE LET n == normalize(data) IN
         IF n.crashed THEN [all |-> <<>>, df |-> <<>>, pc |-> "crashed"]
         ELSE IF Len(n.rs) = 0 THEN [all |-> <<>>, df |-> <<>>, pc |-> "warning"]
         ELSE [all |-> n.rs, df |-> with_status(n.rs), pc |-> "shown"]

----------------------------------------------------------------------------
(* The sidebar handlers; each is one run of the script *)

\* The handler that stores whatever the fetch returned.
store_fetched_always(data, bundle) == bundle

\* if bundle: st.session_state['fhir_data'] = bundle
store_fetched(data, bundle) == IF TruthyJson(bundle) THEN bundle ELSE data

Run(data) ==
    LET p == process(data) IN
    /\ fhir_data' = data
    /\ all_observations' = p.all
    /\ df' = p.df
    /\ pc' = p.pc

\* fetch_fhir_observations: None on a RequestException, else response.json().
FetchResults == {JsonNone, remote}

\* "Fetch Data" pressed with the server as data source.
FetchData ==
    /\ data_source = "HAPI FHIR Server"
    /\ \E bundle \in FetchResults :
         /\ Run(store_fetched(fhir_data, bundle))
         /\ lastRun' = IF bundle = JsonNone THEN "fetch_none"
                       ELSE IF TruthyJson(bundle) THEN "fetch_stored"
                       ELSE "fetch_falsy"
    /\ UNCHANGED <<remote, data_source>>

\* "Load Sample Data" pressed with the sample as data source.
LoadSampleData ==
    /\ data_source = "Sample Data"
    /\ Run(load_sample_data)
    /\ lastRun' = "sample"
    /\ UNCHANGED <<remote, data_source>>

\* The radio button changed: a run with no button pressed.
SelectDataSource ==
    /\ \E s \in {"HAPI FHIR Server", "Sample Data"} :
         /\ s # data_source
         /\ data_source' = s
    /\ Run(fhir_data)
    /\ lastRun' = "rerun"
    /\ UNCHANGED remote

AppIdle ==
    /\ remote = EmptyObject
    /\ data_source = "HAPI FHIR Server"
    /\ fhir_data = NoData
    /\ lastRun = "none"
    /\ all_observations = <<>>
    /\ df = <<>>
    /\ pc = "info"

InitApp ==
    /\ remote \in RemoteBundles
    /\ data_source = "HAPI FHIR Server"
    /\ fhir_data = NoData
    /\ lastRun = "none"
    /\ all_observations = <<>>
    /\ df = <<>>
    /\ pc = "info"

----------------------------------------------------------------------------
(* Specifications *)

appVars == <<remote, data_source, fhir_data, lastRun, all_observations, df, pc>>

\* The dashboard: the server's bundle is any of RemoteBundles.
Init == InitApp /\ ClassifyIdle /\ ParseIdle
Next ==
    \/ FetchData /\ UNCHANGED <<vital_type, value, status, obs, parsed>>
    \/ LoadSampleData /\ UNCHANGED <<vital_type, value, status, obs, parsed>>
    \/ SelectDataSource /\ UNCHANGED <<vital_type, value, status, obs, parsed>>
Spec == Init /\ [][Next]_vars

\* determine_status on any vital type and any probe value.
InitClassifySpec == InitClassify /\ ParseIdle /\ AppIdle
NextClassify == Classify /\ UNCHANGED <<obs, parsed>> /\ UNCHANGED appVars
SpecClassify == InitClassifySpec /\ [][NextClassify]_vars

\* parse_observation on any resource of ObsInputs.
InitParseSpec == InitParse /\ ClassifyIdle /\ AppIdle
NextParse == Parse /\ UNCHANGED <<vital_type, value, status>> /\ UNCHANGED appVars
SpecParse == InitParseSpec /\ [][NextParse]_vars

----------------------------------------------------------------------------
(* Claims about determine_status (SpecClassify) *)

HasHigh(vt) == vt \in DOMAIN THRESHOLDS /\ THRESHOLDS[vt].high.def
HasLow(vt) == vt \in DOMAIN THRESHOLDS /\ THRESHOLDS[vt].low.def

\* C1: for every vital type and value, the status is High exactly when the
\* high threshold is defined and value > high; Low exactly when it is not
\* High, the low threshold is defined and value < low; Normal otherwise. A
\* value equal to a threshold is Normal, a type with no thresholds is always
\* Normal, and the cases of the classification table come out as tabulated.
C1_DetermineStatus ==
    status # Unset =>
        LET isHigh == HasHigh(vital_type) /\ value > THRESHOLDS[vital_type].high.v
            isLow == ~isHigh /\ HasLow(vital_type) /\ value < THRESHOLDS[vital_type].low.v
        IN /\ (status[1] = "high") <=> isHigh
           /\ (status[1] = "low") <=> isLow
           /\ (status[1] = "normal") <=> (~isHigh /\ ~isLow)
           /\ HasHigh(vital_type) /\ value = THRESHOLDS[vital_type].high.v
                  => status[1] = "normal"
           /\ HasLow(vital_type) /\ value = THRESHOLDS[vital_type].low.v
                  => status[1] = "normal"
           /\ ~HasHigh(vital_type) /\ ~HasLow(vital_type) => status[1] = "normal"
           /\ determine_status("blood_pressure_systolic", 1450)[1] = "high"
           /\ determine_status("blood_pressure_systolic", 900)[1] = "normal"
           /\ determine_status("blood_pressure_systolic", 1000)[1] = "normal"
           /\ determine_status("heart_rate", 590)[1] = "low"

\* A classified row whose value sits exactly on its high threshold.
C1_Witness ==
    /\ status # Unset
    /\ HasHigh(vital_type)
    /\ value = THRESHOLDS[vital_type].high.v

----------------------------------------------------------------------------
(* Claims about parse_observation (SpecParse) *)

Range(f) == {f[i] : i \in DOMAIN f}

\* The codes a resource carries: at top level and in its components.
CarriedCodes(o) ==
    Range(o.coding)
        \cup UNION {Range(c.coding.cs) : c \in {d \in Range(o.component) : d.k = "dict"}}

\* C7: no reading is emitted for a code outside the registry: the vital type
\* of every emitted reading is the registry entry of a code carried by the
\* resource or by one of its components.
C7_RegistryTotality ==
    \A i \in 1..Len(parsed.rs) :
        \E c \in CarriedCodes(obs) \cap DOMAIN VITAL_CODES :
            parsed.rs[i].vital_type = VITAL_CODES[c]

\* A panel that yields a reading although one of its components, with a
\* value, is tagged with an unregistered code only.
C7_Witness ==
    /\ Len(parsed.rs) > 0
    /\ \E c \in Range(obs.component) :
          /\ c.k = "dict" /\ c.coding.has /\ c.vq.v = "num"
          /\ Len(c.coding.cs) > 0
          /\ \A j \in 1..Len(c.coding.cs) : c.coding.cs[j] = Unregistered

\* A date field that holds a non-empty value, and the instant a date stands for.
Present(d) == d.k \notin {"absent", "empty"}
IsDate(d) == d.k \in {"Z", "off"}
InstantOf(d) == d.local - d.off

\* C8: every emitted reading has a timestamp, which is the instant of
\* effectiveDateTime when that field is present (holds a non-empty value) and
\* otherwise the instant of effectivePeriod.start; a resource with neither
\* yields no reading.
C8_TimestampTotality ==
    parsed # Pending =>
        /\ \A i \in 1..Len(parsed.rs) :
              IF Present(obs.effectiveDateTime)
              THEN /\ IsDate(obs.effectiveDateTime)
                   /\ parsed.rs[i].date = InstantOf(obs.effectiveDateTime)
              ELSE /\ obs.effectivePeriod.k = "dict"
                   /\ IsDate(obs.effectivePeriod.start)
                   /\ parsed.rs[i].date = InstantOf(obs.effectivePeriod.start)
        /\ (/\ ~Present(obs.effectiveDateTime)
            /\ (obs.effectivePeriod.k # "dict" \/ ~Present(obs.effectivePeriod.start)))
               => Len(parsed.rs) = 0

\* A reading from a resource that has both fields, standing for different
\* instants.
C8_Witness ==
    /\ Len(parsed.rs) > 0
    /\ IsDate(obs.effectiveDateTime)
    /\ obs.effectivePeriod.k = "dict"
    /\ IsDate(obs.effectivePeriod.start)
    /\ InstantOf(obs.effectiveDateTime) # InstantOf(obs.effectivePeriod.start)

\* The registered codes of a component's coding list.
RegisteredCodes(c) == Range(c.coding.cs) \cap DOMAIN VITAL_CODES

\* A component with a value, a unit, and exactly one registered code.
Tagged(c) ==
    /\ c.k = "dict" /\ c.coding.has
    /\ NonDictCoding \notin Range(c.coding.cs)
    /\ Cardinality(RegisteredCodes(c)) = 1
    /\ c.vq.v = "num" /\ c.vq.unit # NoUnit

\* C5 as claimed: a resource with a resolvable timestamp and two components,
\* each with a value and tagged with a distinct registered code, yields
\* exactly two readings carrying the components' codes, values and units,
\* whatever its top-level code and wherever the registered code sits.
C5_ComponentResolution ==
    (/\ parsed # Pending
     /\ IsDate(obs.effectiveDateTime)
     /\ Len(obs.component) = 2
     /\ Tagged(obs.component[1]) /\ Tagged(obs.component[2])
     /\ RegisteredCodes(obs.component[1]) # RegisteredCodes(obs.component[2]))
        => /\ parsed.k = "list"
           /\ Len(parsed.rs) = 2
           /\ \A j \in 1..2 :
                 /\ {VITAL_CODES[c] : c \in RegisteredCodes(obs.component[j])}
                        = {parsed.rs[j].vital_type}
                 /\ parsed.rs[j].value = obs.component[j].vq.n
                 /\ parsed.rs[j].unit = obs.component[j].vq.unit

\* C9 as claimed: a reading never carries an empty unit, and the reading of a
\* scalar resource carries the reported unit, or the canonical unit of its
\* vital type when the source omitted one.
C9_UnitDefault ==
    \A i \in 1..Len(parsed.rs) :
        /\ parsed.rs[i].unit # ""
        /\ (Len(obs.component) = 0 /\ parsed.rs[i].vital_type \in DOMAIN THRESHOLDS)
               => parsed.rs[i].unit =
                      IF obs.valueQuantity.unit # NoUnit THEN obs.valueQuantity.unit
                      ELSE THRESHOLDS[parsed.rs[i].vital_type].unit

----------------------------------------------------------------------------
(* Claims about the dashboard (Spec) *)

\* The session holds a bundle whose 'entry' is a list.
HasEntries == fhir_data.k = "dict" /\ fhir_data.entry.k = "list"

\* An entry that is a well-formed Observation: parse_observation gives readings.
IsObservation(e) ==
    e.k = "dict" /\ e.resource.k = "dict" /\ e.resource.resourceType = "Observation"
YieldsReadings(e) == IsObservation(e) /\ Len(parse_observation(e.resource.o).rs) > 0

\* An Observation whose timestamp field is present and is no date.
UnparsableTimestamp(e) == IsObservation(e) /\ e.resource.o.effectiveDateTime.k = "bad"

\* C2 as claimed: when the processed bundle holds one record with a present
\* but unparsable timestamp among otherwise valid records, the readings
\* handed on are those of the fallback bundle and none of the batch's own.
C2_WholeBatchFallback ==
    (/\ lastRun # "none"
     /\ HasEntries
     /\ Len(fhir_data.entry.items) >= 2
     /\ \E i \in 1..Len(fhir_data.entry.items) :
           /\ UnparsableTimestamp(fhir_data.entry.items[i])
           /\ \A j \in 1..Len(fhir_data.entry.items) :
                 j # i => YieldsReadings(fhir_data.entry.items[j]))
        => all_observations = normalize(load_sample_data).rs

\* The last fetch gave no usable bundle: it raised, returned a falsy value,
\* or returned a bundle with no entries.
FetchUnusable ==
    \/ lastRun \in {"fetch_none", "fetch_falsy"}
    \/ /\ lastRun = "fetch_stored"
       /\ remote \in {NoEntryBundle, NullEntryBundle, Bundle(<<>>)}

\* C3 as claimed: a fetch that fails or returns an empty or absent bundle
\* ends with the local substitute bundle as the session's data.
C3_FetchFallsBack == FetchUnusable => fhir_data = load_sample_data

\* C4 as claimed: the readings produced by the pass are ordered by timestamp,
\* most recent first, whatever the order of the records in the bundle.
C4_SortedDescending ==
    \A i, j \in 1..Len(all_observations) :
        i < j => all_observations[i].date >= all_observations[j].date

\* The entries of a list that are objects whose resource is missing or an object.
RECURSIVE WellFormedEntries(_)
WellFormedEntries(es) ==
    IF Len(es) = 0 THEN <<>>
    ELSE IF Head(es).k = "dict" /\ Head(es).resource.k # "nondict"
         THEN <<Head(es)>> \o WellFormedEntries(Tail(es))
         ELSE WellFormedEntries(Tail(es))

\* C6 as claimed: over a bundle with a list of entries, whatever the shape
\* of each entry, the pass runs to completion, and the readings of the
\* well-formed entries are all produced.
C6_PassCompletes ==
    (lastRun # "none" /\ HasEntries)
        => /\ pc # "crashed"
           /\ all_observations = parse_entries(WellFormedEntries(fhir_data.entry.items), 1, <<>>).rs

\* C10: a fetch that raises or returns a falsy bundle leaves the session's
\* data unchanged, and the readings of that run are those of the data held
\* before; the session's data changes only to the bundle of a successful
\* fetch or to the sample bundle, and is absent before the first of them.
C10_FailedFetchKeepsData ==
    [][/\ lastRun' \in {"fetch_none", "fetch_falsy"}
           => /\ fhir_data' = fhir_data
              /\ all_observations' = process(fhir_data).all
       /\ fhir_data' # fhir_data
           => \/ lastRun' = "fetch_stored" /\ fhir_data' = remote /\ TruthyJson(remote)
              \/ lastRun' = "sample" /\ fhir_data' = load_sample_data
       /\ lastRun = "none" => fhir_data = NoData]_vars

\* A fetch has failed while the session held the readings of an earlier bundle.
C10_Witness ==
    /\ lastRun = "fetch_none"
    /\ fhir_data # NoData
    /\ Len(all_observations) > 0

====
